---- MODULE Spec2Model ----
(***************************************************************************)
(* SSH bastion menu (src/bastion/ssh_menu.py): configuration loading,      *)
(* validation and normalisation, and the three-level curses selection      *)
(* loop network -> server -> user that ends in an ssh launch.             *)
(*                                                                         *)
(* JSON values are tagged records, so that "absent", null, "" and values   *)
(* of the wrong JSON type stay distinct the way Python keeps them apart.   *)
(* A filesystem path is the sequence of its components; "~" as the first   *)
(* component is the home-directory shorthand.                              *)
(***************************************************************************)
EXTENDS Integers, Sequences, FiniteSets, TLC

VARIABLES
    pc,            \* where run() is: a blocking point of the program
    ret,           \* run()'s return value (-1: not returned)
    file,          \* what is on disk at config_path
    config,        \* self.config
    errors,        \* the list validate_config returned
    netRow,        \* current_row of run_network_selection
    srvRow,        \* current_row of run_server_selection
    usrRow,        \* current_row of run_user_selection
    server_info,   \* server_info of the last normalisation that was kept
    users,         \* users of the last normalisation that was kept
    user,          \* the user handed to connect_ssh / get_auth_method_display
    auth,          \* (auth_method, key_info)
    port,          \* the port get_port returned / connect_ssh read
    ssh_command,   \* the argument list handed to subprocess.run
    cursesOn,      \* the terminal is in curses mode
    caller,        \* the menu connect_ssh returns to
    report,        \* what connect_ssh printed about the launch
    probe,         \* the server a pure function is applied to
    normPrev       \* the result of the previous normalisation of probe

vars == <<pc, ret, file, config, errors, netRow, srvRow, usrRow, server_info,
          users, user, auth, port, ssh_command, cursesOn, caller, report,
          probe, normPrev>>

(***************************************************************************)
(* Bounds of the model.                                                    *)
(***************************************************************************)
MaxNetworks == 2
MaxServers == 2
MaxUsers == 2

(***************************************************************************)
(* JSON values.                                                            *)
(***************************************************************************)
NoStr == [t |-> "absent", s |-> ""]
NullStr == [t |-> "null", s |-> ""]
Str(s) == [t |-> "str", s |-> s]

PAbsent == [t |-> "absent", n |-> 0]
PNull == [t |-> "null", n |-> 0]
PInt(n) == [t |-> "int", n |-> n]
PBool(n) == [t |-> "bool", n |-> n]
PStr(n) == [t |-> "str", n |-> n]
PFloat(n) == [t |-> "float", n |-> n]

KAbsent == [t |-> "absent", p |-> <<>>]
KNull == [t |-> "null", p |-> <<>>]
KStr(p) == [t |-> "str", p |-> p]

LAbsent == [t |-> "absent", l |-> <<>>]
LOther == [t |-> "other", l |-> <<>>]
LList(l) == [t |-> "list", l |-> l]

\* Python's `key in dict`
Has(v) == v.t # "absent"

\* Python's isinstance(v, list)
IsList(v) == v.t = "list"

\* Python's isinstance(port, int): bool is a subclass of int
IsInstanceInt(p) == p.t \in {"int", "bool"}

\* Python's truth value of dict.get('key_path'): None and "" are false
Truthy(k) == k.t = "str" /\ k.p # <<>>

RECURSIVE Concat(_)
Concat(ss) == IF ss = <<>> THEN <<>> ELSE Head(ss) \o Concat(Tail(ss))

(***************************************************************************)
(* The filesystem: Path.expanduser() and Path.exists().                    *)
(***************************************************************************)
HomeDir == <<"/", "home", "op">>

ExistingFiles ==
    { <<"/", "home", "op", ".ssh", "id_ed25519">>,
      <<"/", "etc", "bastion", "key">> }

expanduser(p) ==
    IF p # <<>> /\ Head(p) = "~" THEN HomeDir \o Tail(p) ELSE p

exists(p) == p \in ExistingFiles

(***************************************************************************)
(* validate_config                                                         *)
(***************************************************************************)
Err(kind, n, s, u, field, key, prt) ==
    [kind |-> kind, net |-> n, srv |-> s, usr |-> u, field |-> field,
     key |-> key, port |-> prt]

\* user_errors reporting the user's position counted from 1
user_errors_one_based(u, n, s, i) ==
    (IF ~Has(u.username)
        THEN <<Err("missing_field", n, s, i + 1, "username", <<>>, PAbsent)>>
        ELSE <<>>)
    \o
    (IF Has(u.key_path) /\ Truthy(u.key_path)
          /\ ~exists(expanduser(u.key_path.p))
        THEN <<Err("key_not_found", n, s, i + 1, "key_path", u.key_path.p, PAbsent)>>
        ELSE <<>>)

user_errors(u, n, s, i) ==
    (IF ~Has(u.username)
        THEN <<Err("missing_field", n, s, i, "username", <<>>, PAbsent)>>
        ELSE <<>>)
    \o
    (IF Has(u.key_path) /\ Truthy(u.key_path)
          /\ ~exists(expanduser(u.key_path.p))
        THEN <<Err("key_not_found", n, s, i, "key_path", u.key_path.p, PAbsent)>>
        ELSE <<>>)

port_ok(p) == IsInstanceInt(p) /\ 1 <= p.n /\ p.n <= 65535

ip_errors(server, n, s) ==
    IF ~Has(server.ip)
        THEN <<Err("missing_field", n, s, -1, "ip", <<>>, PAbsent)>>
        ELSE <<>>

\* credential_errors with the "has both" check forgotten
credential_errors_no_both(server, n, s) ==
    IF ~Has(server.username) /\ ~Has(server.users)
        THEN <<Err("no_credentials", n, s, -1, "", <<>>, PAbsent)>>
        ELSE <<>>

credential_errors(server, n, s) ==
    LET has_username == Has(server.username)
        has_users == Has(server.users)
    IN  (IF ~has_username /\ ~has_users
            THEN <<Err("no_credentials", n, s, -1, "", <<>>, PAbsent)>>
            ELSE <<>>)
        \o
        (IF has_username /\ has_users
            THEN <<Err("both_credentials", n, s, -1, "", <<>>, PAbsent)>>
            ELSE <<>>)

\* users_errors without the test for an empty array
users_errors_allows_empty(server, n, s) ==
    IF Has(server.users)
        THEN IF ~IsList(server.users)
                THEN <<Err("users_not_array", n, s, -1, "users", <<>>, PAbsent)>>
             ELSE Concat([i \in 1..Len(server.users.l) |->
                             user_errors(server.users.l[i], n, s, i - 1)])
        ELSE <<>>

users_errors(server, n, s) ==
    IF Has(server.users)
        THEN IF ~IsList(server.users)
                THEN <<Err("users_not_array", n, s, -1, "users", <<>>, PAbsent)>>
             ELSE IF Len(server.users.l) = 0
                THEN <<Err("users_empty", n, s, -1, "users", <<>>, PAbsent)>>
             ELSE Concat([i \in 1..Len(server.users.l) |->
                             user_errors(server.users.l[i], n, s, i - 1)])
        ELSE <<>>

port_errors(server, n, s) ==
    IF Has(server.port) /\ server.port.t # "null" /\ ~port_ok(server.port)
        THEN <<Err("invalid_port", n, s, -1, "port", <<>>, server.port)>>
        ELSE <<>>

\* legacy_key_errors testing the path as written, without expanduser()
legacy_key_errors_unexpanded(server, n, s) ==
    IF Has(server.username) /\ Has(server.key_path) /\ Truthy(server.key_path)
          /\ ~exists(server.key_path.p)
        THEN <<Err("key_not_found", n, s, -1, "key_path", server.key_path.p, PAbsent)>>
        ELSE <<>>

legacy_key_errors(server, n, s) ==
    IF Has(server.username) /\ Has(server.key_path) /\ Truthy(server.key_path)
          /\ ~exists(expanduser(server.key_path.p))
        THEN <<Err("key_not_found", n, s, -1, "key_path", server.key_path.p, PAbsent)>>
        ELSE <<>>

server_errors(server, n, s) ==
    ip_errors(server, n, s)
    \o credential_errors(server, n, s)
    \o users_errors(server, n, s)
    \o port_errors(server, n, s)
    \o legacy_key_errors(server, n, s)

network_field_errors(network, n) ==
    (IF ~Has(network.name)
        THEN <<Err("missing_field", n, -1, -1, "name", <<>>, PAbsent)>>
        ELSE <<>>)
    \o
    (IF ~Has(network.servers)
        THEN <<Err("missing_field", n, -1, -1, "servers", <<>>, PAbsent)>>
        ELSE <<>>)

network_server_errors(network, n) ==
    IF Has(network.servers)
        THEN IF ~IsList(network.servers)
                THEN <<Err("servers_not_array", n, -1, -1, "servers", <<>>, PAbsent)>>
                ELSE Concat([i \in 1..Len(network.servers.l) |->
                                server_errors(network.servers.l[i], n, i - 1)])
        ELSE <<>>

\* network_errors giving up on a network at its first finding
network_errors_first(network, n) ==
    IF network_field_errors(network, n) # <<>>
        THEN network_field_errors(network, n)
        ELSE network_server_errors(network, n)

network_errors(network, n) ==
    network_field_errors(network, n) \o network_server_errors(network, n)

validate_config(cfg) ==
    IF cfg.t # "object"
        THEN <<Err("not_object", -1, -1, -1, "", <<>>, PAbsent)>>
    ELSE IF ~Has(cfg.networks)
        THEN <<Err("missing_networks", -1, -1, -1, "networks", <<>>, PAbsent)>>
    ELSE IF ~IsList(cfg.networks)
        THEN <<Err("networks_not_array", -1, -1, -1, "networks", <<>>, PAbsent)>>
    ELSE Concat([i \in 1..Len(cfg.networks.l) |->
                    network_errors(cfg.networks.l[i], i - 1)])

(***************************************************************************)
(* get_port, normalize_server_format, get_auth_method_display              *)
(***************************************************************************)
DefaultPort == 22

get_port(server) ==
    LET p == IF Has(server.port) THEN server.port ELSE PInt(DefaultPort)
    IN  IF ~IsInstanceInt(p) \/ ~(1 <= p.n /\ p.n <= 65535)
            THEN PInt(DefaultPort)
            ELSE p

\* dict.get(key) without a default: None when the key is absent
GetOrNone(k) == IF Has(k) THEN k ELSE KNull

\* dict.get('description', default)
GetDescription(server, default) ==
    IF Has(server.description) THEN server.description ELSE Str(default)

\* legacy_user with the description always "Default user"
legacy_user_fixed_description(server) ==
    [username |-> server.username,
     key_path |-> GetOrNone(server.key_path),
     description |-> Str("Default user")]

\* the old format: the one user synthesised from the server's own fields
legacy_user(server) ==
    [username |-> server.username,
     key_path |-> GetOrNone(server.key_path),
     description |-> GetDescription(server, "Default user")]

normalize_server_format(server) ==
    [info |-> [ip |-> server.ip,
               description |-> GetDescription(server, "N/A"),
               port |-> get_port(server)],
     users |-> IF Has(server.users)
                  THEN server.users
                  ELSE LList(<<legacy_user(server)>>)]

\* normalize_server_format filling the description in with setdefault()
server_after_normalize_setdefault(server) ==
    [server EXCEPT !.description = IF Has(@) THEN @ ELSE Str("Default user")]

\* normalize_server_format storing the resolved port back into the server
server_after_normalize_stores_port(server) ==
    [server EXCEPT !.port = get_port(server)]

\* normalize_server_format only reads its argument: the server it was
\* given is the same dictionary afterwards
server_after_normalize(server) == server

\* server['ip'], server['users'] / server['username'] raise KeyError when absent
normalize_raises(server) ==
    ~Has(server.ip) \/ (~Has(server.users) /\ ~Has(server.username))

\* get_auth_method_display testing `key_path is not None`
get_auth_method_display_not_none(u) ==
    IF GetOrNone(u.key_path).t = "str"
        THEN [method |-> "KEY", key_info |-> KStr(expanduser(u.key_path.p))]
        ELSE [method |-> "PASSWORD", key_info |-> KNull]

get_auth_method_display(u) ==
    LET key_path == GetOrNone(u.key_path)
    IN  IF Truthy(key_path)
            THEN [method |-> "KEY", key_info |-> KStr(expanduser(key_path.p))]
            ELSE [method |-> "PASSWORD", key_info |-> KNull]

(***************************************************************************)
(* The inventories the model is run on.  A list is filled with a valid     *)
(* record everywhere except at one position, which holds any record of a   *)
(* pool; a second family repeats a few records at every position.          *)
(***************************************************************************)
OneProbeSeqs(pool, filler, lens) ==
    UNION { { [i \in 1..len |-> IF i = k THEN x ELSE filler] :
                k \in 1..len, x \in pool } : len \in lens }

SeqsUpTo(pool, maxLen) ==
    UNION { [1..len -> pool] : len \in 0..maxLen }

KeyPool ==
    { KAbsent, KNull, KStr(<<>>),
      KStr(<<"~", ".ssh", "id_ed25519">>),
      KStr(<<"/", "nonexistent">>) }

PortPool ==
    { PAbsent, PNull, PInt(0), PInt(1), PInt(22), PInt(2222), PInt(65535),
      PInt(65536), PInt(-1), PStr(22), PFloat(22), PBool(1), PBool(0) }

FillerUser ==
    [username |-> Str("admin"), key_path |-> KAbsent, description |-> NoStr]

UserPool ==
    { [username |-> n, key_path |-> k, description |-> NoStr] :
        n \in {NoStr, Str("alice")}, k \in KeyPool }

UsersShapes ==
    {LAbsent, LOther, LList(<<>>)}
    \cup { LList(l) : l \in OneProbeSeqs(UserPool, FillerUser, 1..MaxUsers) }

MkServer(ip, d, p, n, us, k) ==
    [ip |-> ip, description |-> d, port |-> p, username |-> n, users |-> us,
     key_path |-> k]

FillerServer ==
    MkServer(Str("10.0.0.1"), NoStr, PAbsent, Str("root"), LAbsent, KAbsent)

TwoUsers ==
    LList(<<FillerUser,
            [username |-> Str("bob"),
             key_path |-> KStr(<<"~", ".ssh", "id_ed25519">>),
             description |-> Str("Backup operator")]>>)

ServerProbePool ==
    { MkServer(ip, NoStr, PAbsent, n, LAbsent, k) :
        ip \in {NoStr, Str("10.0.0.5")}, n \in {NoStr, Str("root")}, k \in KeyPool }
    \cup
    { MkServer(ip, NoStr, PAbsent, n, us, k) :
        ip \in {NoStr, Str("10.0.0.5")}, n \in {NoStr, Str("root")},
        us \in UsersShapes, k \in {KAbsent, KStr(<<"/", "nonexistent">>)} }
    \cup
    { MkServer(Str("10.0.0.5"), d, p, cred[1], cred[2], KAbsent) :
        d \in {NoStr, Str("Web server")}, p \in PortPool,
        cred \in {<<Str("root"), LAbsent>>, <<NoStr, TwoUsers>>} }

MkNetwork(name, servers) ==
    [name |-> name, cidr |-> NoStr, servers |-> servers]

FillerNetwork == MkNetwork(Str("lab"), LList(<<FillerServer>>))

NetworkProbePool ==
    { MkNetwork(name, servers) :
        name \in {NoStr, Str("dmz")},
        servers \in {LAbsent, LOther, LList(<<>>)}
                    \cup { LList(l) : l \in OneProbeSeqs(ServerProbePool, FillerServer,
                                                         {MaxServers}) } }

MkConfig(t, networks) == [t |-> t, networks |-> networks]

NoConfig == MkConfig("none", LAbsent)

ProbeConfigs ==
    { MkConfig("other", LAbsent), MkConfig("object", LAbsent),
      MkConfig("object", LOther), MkConfig("object", LList(<<>>)) }
    \cup
    { MkConfig("object", LList(l)) :
        l \in OneProbeSeqs(NetworkProbePool, FillerNetwork, {MaxNetworks}) }

\* three violations in one server, two of them in different users
BadServer ==
    MkServer(NoStr, NoStr, PInt(0), NoStr,
             LList(<<[username |-> NoStr, key_path |-> KAbsent, description |-> NoStr],
                     [username |-> Str("eve"), key_path |-> KStr(<<"/", "nonexistent">>),
                      description |-> NoStr]>>),
             KAbsent)

GoodServer ==
    MkServer(Str("10.0.0.9"), Str("Jump host"), PInt(2222), Str("ops"), LAbsent,
             KStr(<<"~", ".ssh", "id_ed25519">>))

BroadNetworks ==
    { MkNetwork(Str("core"), LList(l)) :
        l \in SeqsUpTo({GoodServer, BadServer}, MaxServers) }
    \cup { MkNetwork(NoStr, LAbsent) }

BroadConfigs ==
    { MkConfig("object", LList(l)) : l \in SeqsUpTo(BroadNetworks, MaxNetworks) }

Inventories == ProbeConfigs \cup BroadConfigs

(***************************************************************************)
(* The state of run() between two blocking points.                         *)
(***************************************************************************)
NoInfo == [ip |-> NoStr, description |-> NoStr, port |-> PAbsent]
NoUser == [username |-> NoStr, key_path |-> KAbsent, description |-> NoStr]
NoAuth == [method |-> "", key_info |-> KNull]
NoServer == MkServer(NoStr, NoStr, PAbsent, NoStr, LAbsent, KAbsent)
NoNorm == [set |-> FALSE, info |-> NoInfo, users |-> LAbsent]

Menus == {"NetworkList", "ServerList", "ServerEmpty", "UserList"}
Interactive == Menus \cup {"Running", "Ack"}

Files ==
    { [state |-> st, doc |-> NoConfig] : st \in {"missing", "malformed", "unreadable"} }
    \cup { [state |-> "ok", doc |-> c] : c \in Inventories }

Init ==
    /\ pc = "start"
    /\ ret = -1
    /\ file \in Files
    /\ config = NoConfig
    /\ errors = <<>>
    /\ netRow = 0
    /\ srvRow = 0
    /\ usrRow = 0
    /\ server_info = NoInfo
    /\ users = LAbsent
    /\ user = NoUser
    /\ auth = NoAuth
    /\ port = PAbsent
    /\ ssh_command = <<>>
    /\ cursesOn = FALSE
    /\ caller = ""
    /\ report = ""
    /\ probe = NoServer
    /\ normPrev = NoNorm

rows == <<netRow, srvRow, usrRow>>
menuLocals == <<server_info, users>>
connLocals == <<user, auth, port, ssh_command, caller>>
pureVars == <<probe, normPrev>>

(***************************************************************************)
(* run(): load_config, then validate_config, then curses.wrapper           *)
(***************************************************************************)
\* load_config catches FileNotFoundError and json.JSONDecodeError only
load_config(f) ==
    CASE f.state = "ok" -> "True"
      [] f.state \in {"missing", "malformed"} -> "False"
      [] OTHER -> "raise"

run_load_config ==
    /\ pc = "start"
    /\ LET r == load_config(file)
       IN  /\ config' = IF r = "True" THEN file.doc ELSE config
           /\ pc' = CASE r = "True" -> "loaded"
                      [] r = "False" -> "returned"
                      [] OTHER -> "crashed"
           /\ ret' = IF r = "False" THEN 1 ELSE ret
           /\ report' = CASE r = "True" -> report
                          [] r = "False" -> "config error"
                          [] OTHER -> "traceback"
    /\ UNCHANGED <<file, errors, rows, menuLocals, connLocals, cursesOn, pureVars>>

\* run() entering curses whatever validate_config returned
run_validate_config_ungated ==
    /\ pc = "loaded"
    /\ errors' = validate_config(config)
    /\ pc' = "NetworkList"
    /\ cursesOn' = TRUE
    /\ netRow' = 0
    /\ UNCHANGED <<ret, report, file, config, srvRow, usrRow, server_info, users,
                   user, auth, port, ssh_command, caller, probe, normPrev>>

\* run() after load_config returned True, up to the first getch()
run_validate_config ==
    /\ pc = "loaded"
    /\ errors' = validate_config(config)
    /\ IF errors' # <<>>
          THEN /\ pc' = "returned"
               /\ ret' = 1
               /\ report' = "validation failed"
               /\ UNCHANGED <<cursesOn, netRow>>
          ELSE /\ pc' = "NetworkList"
               /\ cursesOn' = TRUE
               /\ netRow' = 0
               /\ UNCHANGED <<ret, report>>
    /\ UNCHANGED <<file, config, srvRow, usrRow, menuLocals, connLocals, pureVars>>

\* an exception other than KeyboardInterrupt leaves curses.wrapper (which
\* restores the terminal) and run(): the process ends with a traceback
Crash ==
    /\ pc' = "crashed"
    /\ cursesOn' = FALSE
    /\ report' = "traceback"
    /\ UNCHANGED ret

\* run() returning 1 after curses.wrapper
Return0_code1(msg) ==
    /\ pc' = "returned"
    /\ ret' = 1
    /\ cursesOn' = FALSE
    /\ report' = msg

\* run() returns 0 after curses.wrapper
Return0(msg) ==
    /\ pc' = "returned"
    /\ ret' = 0
    /\ cursesOn' = FALSE
    /\ report' = msg

(***************************************************************************)
(* connect_ssh up to subprocess.run                                        *)
(***************************************************************************)
RECURSIVE JoinPath(_)
JoinPath(p) ==
    IF p = <<>> THEN ""
    ELSE IF Len(p) = 1 THEN Head(p)
    ELSE IF Head(p) = "/" THEN "/" \o JoinPath(Tail(p))
    ELSE Head(p) \o "/" \o JoinPath(Tail(p))

\* str(port): a bool prints as True / False
PortText(p) ==
    IF p.t = "bool" THEN (IF p.n = 1 THEN "True" ELSE "False") ELSE ToString(p.n)

\* the command without the identity file
build_ssh_command_no_identity(info, u, a) ==
    <<"ssh", "-p", PortText(info.port)>> \o <<u.username.s \o "@" \o info.ip.s>>

build_ssh_command(info, u, a) ==
    <<"ssh", "-p", PortText(info.port)>>
    \o (IF a.method = "KEY" THEN <<"-i", JoinPath(a.key_info.p)>> ELSE <<>>)
    \o <<u.username.s \o "@" \o info.ip.s>>

\* connect_ssh without curses.endwin()
connect_ssh_no_endwin(info, u, from) ==
    /\ cursesOn' = cursesOn
    /\ user' = u
    /\ auth' = get_auth_method_display(u)
    /\ port' = info.port
    /\ ssh_command' = build_ssh_command(info, u, get_auth_method_display(u))
    /\ caller' = from
    /\ report' = "summary"
    /\ pc' = "Running"

connect_ssh(info, u, from) ==
    /\ cursesOn' = FALSE
    /\ user' = u
    /\ auth' = get_auth_method_display(u)
    /\ port' = info.port
    /\ ssh_command' = build_ssh_command(info, u, get_auth_method_display(u))
    /\ caller' = from
    /\ report' = "summary"
    /\ pc' = "Running"

(***************************************************************************)
(* run_network_selection                                                   *)
(***************************************************************************)
networks == config.networks.l

\* network.get('servers', [])
servers_of(network) ==
    IF Has(network.servers) THEN network.servers ELSE LList(<<>>)

\* the draw loop of run_server_selection normalises every server it shows
with_servers_normalized(cfg, n) ==
    [cfg EXCEPT !.networks.l[n].servers.l =
        [i \in 1..Len(@) |-> server_after_normalize(@[i])]]

net_key_up ==
    /\ pc = "NetworkList"
    /\ netRow' = IF netRow > 0 THEN netRow - 1 ELSE netRow
    /\ UNCHANGED <<pc, ret, file, config, errors, srvRow, usrRow, menuLocals,
                   connLocals, cursesOn, report, pureVars>>

net_key_down ==
    /\ pc = "NetworkList"
    /\ netRow' = IF netRow < Len(networks) - 1 THEN netRow + 1 ELSE netRow
    /\ UNCHANGED <<pc, ret, file, config, errors, srvRow, usrRow, menuLocals,
                   connLocals, cursesOn, report, pureVars>>

\* networks[current_row] raises IndexError on an empty list
net_key_enter ==
    /\ pc = "NetworkList"
    /\ IF netRow + 1 > Len(networks)
          THEN /\ Crash
               /\ UNCHANGED <<config, srvRow>>
          ELSE LET servers == servers_of(networks[netRow + 1])
               IN  /\ srvRow' = 0
                   /\ IF servers.l = <<>>
                         THEN /\ pc' = "ServerEmpty"
                              /\ UNCHANGED config
                         ELSE /\ pc' = "ServerList"
                              /\ config' = with_servers_normalized(config, netRow + 1)
                   /\ UNCHANGED <<ret, cursesOn, report>>
    /\ UNCHANGED <<file, errors, netRow, usrRow, menuLocals, connLocals, pureVars>>

net_key_quit ==
    /\ pc = "NetworkList"
    /\ Return0("quit")
    /\ UNCHANGED <<file, config, errors, rows, menuLocals, connLocals, pureVars>>

net_key_other ==
    /\ pc = "NetworkList"
    /\ UNCHANGED vars

(***************************************************************************)
(* run_server_selection                                                    *)
(***************************************************************************)
servers == servers_of(networks[netRow + 1]).l

\* the "no servers" screen ending the program on its key
empty_any_key_quits ==
    /\ pc = "ServerEmpty"
    /\ Return0("quit")
    /\ UNCHANGED <<file, config, errors, rows, menuLocals, connLocals, pureVars>>

\* the "no servers" screen: stdscr.getch(), then return None
empty_any_key ==
    /\ pc = "ServerEmpty"
    /\ pc' = "NetworkList"
    /\ UNCHANGED <<ret, file, config, errors, rows, menuLocals, connLocals,
                   cursesOn, report, pureVars>>

srv_key_up ==
    /\ pc = "ServerList"
    /\ srvRow' = IF srvRow > 0 THEN srvRow - 1 ELSE srvRow
    /\ config' = with_servers_normalized(config, netRow + 1)
    /\ UNCHANGED <<pc, ret, file, errors, netRow, usrRow, menuLocals,
                   connLocals, cursesOn, report, pureVars>>

srv_key_down ==
    /\ pc = "ServerList"
    /\ srvRow' = IF srvRow < Len(servers) - 1 THEN srvRow + 1 ELSE srvRow
    /\ config' = with_servers_normalized(config, netRow + 1)
    /\ UNCHANGED <<pc, ret, file, errors, netRow, usrRow, menuLocals,
                   connLocals, cursesOn, report, pureVars>>

\* ENTER in the server list opening the user list whatever the user count
srv_key_enter_always_menu ==
    /\ pc = "ServerList"
    /\ LET server == servers[srvRow + 1]
           r == normalize_server_format(server)
       IN  /\ config' = [config EXCEPT !.networks.l[netRow + 1].servers.l[srvRow + 1] =
                            server_after_normalize(server)]
           /\ server_info' = r.info
           /\ users' = r.users
           /\ pc' = "UserList"
           /\ usrRow' = 0
           /\ UNCHANGED <<connLocals, cursesOn, report>>
    /\ UNCHANGED <<ret, file, errors, netRow, srvRow, pureVars>>

\* ENTER in the server list connecting as the first user whatever the count
srv_key_enter_first_user ==
    /\ pc = "ServerList"
    /\ LET server == servers[srvRow + 1]
           r == normalize_server_format(server)
       IN  /\ config' = [config EXCEPT !.networks.l[netRow + 1].servers.l[srvRow + 1] =
                            server_after_normalize(server)]
           /\ server_info' = r.info
           /\ users' = r.users
           /\ connect_ssh(r.info, r.users.l[1], "ServerList")
           /\ UNCHANGED usrRow
    /\ UNCHANGED <<ret, file, errors, netRow, srvRow, pureVars>>

srv_key_enter ==
    /\ pc = "ServerList"
    /\ LET server == servers[srvRow + 1]
           r == normalize_server_format(server)
       IN  /\ config' = [config EXCEPT !.networks.l[netRow + 1].servers.l[srvRow + 1] =
                            server_after_normalize(server)]
           /\ server_info' = r.info
           /\ users' = r.users
           /\ IF Len(r.users.l) = 1
                 THEN /\ connect_ssh(r.info, r.users.l[1], "ServerList")
                      /\ UNCHANGED usrRow
                 ELSE /\ pc' = "UserList"
                      /\ usrRow' = 0
                      /\ UNCHANGED <<connLocals, cursesOn, report>>
    /\ UNCHANGED <<ret, file, errors, netRow, srvRow, pureVars>>

\* Q / ESC in the server list ending the program
srv_key_quit_exits ==
    /\ pc = "ServerList"
    /\ Return0("quit")
    /\ UNCHANGED <<file, config, errors, rows, menuLocals, connLocals, pureVars>>

srv_key_quit ==
    /\ pc = "ServerList"
    /\ pc' = "NetworkList"
    /\ UNCHANGED <<ret, file, config, errors, rows, menuLocals, connLocals,
                   cursesOn, report, pureVars>>

srv_key_other ==
    /\ pc = "ServerList"
    /\ config' = with_servers_normalized(config, netRow + 1)
    /\ UNCHANGED <<pc, ret, file, errors, rows, menuLocals, connLocals,
                   cursesOn, report, pureVars>>

(***************************************************************************)
(* run_user_selection                                                      *)
(***************************************************************************)
usr_key_up ==
    /\ pc = "UserList"
    /\ usrRow' = IF usrRow > 0 THEN usrRow - 1 ELSE usrRow
    /\ UNCHANGED <<pc, ret, file, config, errors, netRow, srvRow, menuLocals,
                   connLocals, cursesOn, report, pureVars>>

usr_key_down ==
    /\ pc = "UserList"
    /\ usrRow' = IF usrRow < Len(users.l) - 1 THEN usrRow + 1 ELSE usrRow
    /\ UNCHANGED <<pc, ret, file, config, errors, netRow, srvRow, menuLocals,
                   connLocals, cursesOn, report, pureVars>>

\* users[current_row] raises IndexError on an empty list
usr_key_enter ==
    /\ pc = "UserList"
    /\ IF usrRow + 1 > Len(users.l)
          THEN /\ Crash
               /\ UNCHANGED connLocals
          ELSE /\ connect_ssh(server_info, users.l[usrRow + 1], "UserList")
               /\ UNCHANGED ret
    /\ UNCHANGED <<file, config, errors, rows, menuLocals, pureVars>>

\* the user list ignoring Q / ESC
usr_key_quit_ignored ==
    /\ pc = "UserList"
    /\ UNCHANGED vars

\* back in run_server_selection, whose loop redraws the server list
usr_key_quit ==
    /\ pc = "UserList"
    /\ pc' = "ServerList"
    /\ server_info' = NoInfo
    /\ users' = LAbsent
    /\ usrRow' = 0
    /\ config' = with_servers_normalized(config, netRow + 1)
    /\ UNCHANGED <<ret, file, errors, netRow, srvRow, connLocals, cursesOn,
                   report, pureVars>>

usr_key_other ==
    /\ pc = "UserList"
    /\ UNCHANGED vars

(***************************************************************************)
(* connect_ssh from subprocess.run on: the external process, the report,   *)
(* the acknowledgment                                                      *)
(***************************************************************************)
\* subprocess.run returned, raised KeyboardInterrupt, or raised another
\* exception; each leads to input()
Reported(msg) ==
    /\ pc = "Running"
    /\ pc' = "Ack"
    /\ report' = msg
    /\ UNCHANGED <<ret, file, config, errors, rows, menuLocals, connLocals,
                   cursesOn, pureVars>>

proc_exit == Reported("exited")

proc_interrupted == Reported("Connection interrupted")

proc_failed == Reported("Connection failed")

\* input() returned: connect_ssh returns to the loop that called it, whose
\* next refresh() puts the terminal back in curses mode
ack_enter ==
    /\ pc = "Ack"
    /\ pc' = caller
    /\ cursesOn' = TRUE
    /\ user' = NoUser
    /\ auth' = NoAuth
    /\ port' = PAbsent
    /\ ssh_command' = <<>>
    /\ caller' = ""
    /\ report' = ""
    /\ IF caller = "ServerList"
          THEN /\ server_info' = NoInfo
               /\ users' = LAbsent
               /\ config' = with_servers_normalized(config, netRow + 1)
          ELSE UNCHANGED <<menuLocals, config>>
    /\ UNCHANGED <<ret, file, errors, rows, pureVars>>

\* input() raises KeyboardInterrupt: caught by run()
ack_interrupt ==
    /\ pc = "Ack"
    /\ Return0("Goodbye!")
    /\ UNCHANGED <<file, config, errors, rows, menuLocals, connLocals, pureVars>>

\* input() raises EOFError (end of input on stdin): caught nowhere
ack_eof ==
    /\ pc = "Ack"
    /\ Crash
    /\ UNCHANGED <<file, config, errors, rows, menuLocals, connLocals, pureVars>>

\* getch() raises KeyboardInterrupt: caught by run()
menu_interrupt ==
    /\ pc \in Menus
    /\ Return0("Goodbye!")
    /\ UNCHANGED <<file, config, errors, rows, menuLocals, connLocals, pureVars>>

Next ==
    \/ run_load_config
    \/ run_validate_config
    \/ net_key_up
    \/ net_key_down
    \/ net_key_enter
    \/ net_key_quit
    \/ net_key_other
    \/ empty_any_key
    \/ srv_key_up
    \/ srv_key_down
    \/ srv_key_enter
    \/ srv_key_quit
    \/ srv_key_other
    \/ usr_key_up
    \/ usr_key_down
    \/ usr_key_enter
    \/ usr_key_quit
    \/ usr_key_other
    \/ proc_exit
    \/ proc_interrupted
    \/ proc_failed
    \/ ack_enter
    \/ ack_interrupt
    \/ ack_eof
    \/ menu_interrupt

Spec == Init /\ [][Next]_vars

(***************************************************************************)
(* The pure functions applied to any server and user, valid or not.        *)
(***************************************************************************)
OneUser == LList(<<FillerUser>>)

PureServers ==
    { MkServer(Str("10.0.0.5"), d, p, cred[1], cred[2], k) :
        d \in {NoStr, NullStr, Str("Web server")}, p \in PortPool,
        cred \in {<<Str("root"), LAbsent>>, <<NoStr, TwoUsers>>, <<NoStr, OneUser>>},
        k \in KeyPool }

PureUsers == UserPool \cup {FillerUser}

InitPure ==
    /\ pc = "pure"
    /\ ret = -1
    /\ file = [state |-> "missing", doc |-> NoConfig]
    /\ config = NoConfig
    /\ errors = <<>>
    /\ netRow = 0
    /\ srvRow = 0
    /\ usrRow = 0
    /\ server_info = NoInfo
    /\ users = LAbsent
    /\ user = NoUser
    /\ auth = NoAuth
    /\ port = PAbsent
    /\ ssh_command = <<>>
    /\ cursesOn = FALSE
    /\ caller = ""
    /\ report = ""
    /\ probe \in PureServers
    /\ normPrev = NoNorm

call_get_port ==
    /\ pc = "pure"
    /\ port' = get_port(probe)
    /\ UNCHANGED <<pc, ret, file, config, errors, rows, menuLocals, user, auth,
                   ssh_command, cursesOn, caller, report, pureVars>>

call_normalize_server_format ==
    /\ pc = "pure"
    /\ ~normalize_raises(probe)
    /\ normPrev' = IF server_info = NoInfo
                      THEN NoNorm
                      ELSE [set |-> TRUE, info |-> server_info, users |-> users]
    /\ server_info' = normalize_server_format(probe).info
    /\ users' = normalize_server_format(probe).users
    /\ probe' = server_after_normalize(probe)
    /\ UNCHANGED <<pc, ret, file, config, errors, rows, connLocals, cursesOn, report>>

call_get_auth_method_display ==
    /\ pc = "pure"
    /\ \E u \in PureUsers :
          /\ user' = u
          /\ auth' = get_auth_method_display(u)
    /\ UNCHANGED <<pc, ret, file, config, errors, rows, menuLocals, port,
                   ssh_command, cursesOn, caller, report, pureVars>>

NextPure ==
    \/ call_get_port
    \/ call_normalize_server_format
    \/ call_get_auth_method_display

SpecPure == InitPure /\ [][NextPure]_vars

(***************************************************************************)
(* What the properties talk about.                                         *)
(***************************************************************************)
\* validate_config has returned and `errors` is its list
Validated == pc \notin {"start", "loaded", "pure"} /\ config # NoConfig

ErrSet == { errors[i] : i \in 1..Len(errors) }

\* the networks, servers and users validate_config can enumerate
Nets ==
    IF config.t = "object" /\ IsList(config.networks) THEN config.networks.l ELSE <<>>

SrvsOf(n) == IF IsList(Nets[n].servers) THEN Nets[n].servers.l ELSE <<>>

UsrsOf(n, s) == IF IsList(SrvsOf(n)[s].users) THEN SrvsOf(n)[s].users.l ELSE <<>>

NetIdx == 1..Len(Nets)
SrvIdx == UNION { { <<n, s>> : s \in 1..Len(SrvsOf(n)) } : n \in NetIdx }
UsrIdx == UNION { { <<ns, u>> : u \in 1..Len(UsrsOf(ns[1], ns[2])) } : ns \in SrvIdx }

KeyMissing(k) ==
    k.t = "str" /\ k.p # <<>>
    /\ (IF Head(k.p) = "~" THEN HomeDir \o Tail(k.p) ELSE k.p) \notin ExistingFiles

IntInRange(p) == p.t = "int" /\ p.n \in 1..65535

(***************************************************************************)
(* C1  Startup gate: run() is in an interactive state (a menu, the         *)
(* external process, the acknowledgment) only after load_config returned   *)
(* True and validate_config returned the empty list; when load_config      *)
(* returns False or the error list is not empty, run() has returned 1      *)
(* and the terminal never was in curses mode.                              *)
(***************************************************************************)
C1_StartupGate ==
    /\ pc \in Interactive =>
          /\ file.state = "ok"
          /\ config # NoConfig
          /\ errors = <<>>
          /\ \A n \in NetIdx : Nets[n].name.t = "str" /\ IsList(Nets[n].servers)
          /\ config.t = "object" /\ IsList(config.networks)
    /\ file.state \in {"missing", "malformed"} =>
          /\ pc \in {"start", "returned"}
          /\ pc = "returned" => ret = 1
          /\ ~cursesOn
    /\ errors # <<>> => pc = "returned" /\ ret = 1 /\ ~cursesOn
    /\ ret = 1 => file.state \in {"missing", "malformed"} \/ errors # <<>>

C1_Witness == pc = "returned" /\ ret = 1 /\ Len(errors) >= 2 /\ config # NoConfig

(***************************************************************************)
(* C2  After a successful load and validation no keypress and no launcher  *)
(* outcome crashes the program: whenever validate_config accepted the      *)
(* inventory, run() is never ended by an uncaught exception.               *)
(***************************************************************************)
C2_NoCrashAfterValidation ==
    (config # NoConfig /\ validate_config(config) = <<>>) => pc # "crashed"

(***************************************************************************)
(* C3  validate_config collects every violation: once the top-level        *)
(* checks pass, every violating network, every violating server and every  *)
(* violating user has a message of its own, so there are at least as many  *)
(* messages as violating networks, servers and users.  (A boolean port is  *)
(* left out of "violating" here.)                                          *)
(***************************************************************************)
NetViolates(n) ==
    ~Has(Nets[n].name) \/ ~Has(Nets[n].servers) \/ ~IsList(Nets[n].servers)

SrvViolates(n, s) ==
    LET sv == SrvsOf(n)[s]
    IN  \/ ~Has(sv.ip)
        \/ Has(sv.username) = Has(sv.users)
        \/ Has(sv.users) /\ (~IsList(sv.users) \/ sv.users.l = <<>>)
        \/ Has(sv.port) /\ sv.port.t \notin {"null", "bool"} /\ ~IntInRange(sv.port)
        \/ Has(sv.username) /\ KeyMissing(sv.key_path)

UsrViolates(n, s, u) ==
    LET x == UsrsOf(n, s)[u]
    IN  ~Has(x.username) \/ KeyMissing(x.key_path)

Violators ==
    { <<n, 0, 0>> : n \in { m \in NetIdx : NetViolates(m) } }
    \cup { <<ns[1], ns[2], 0>> : ns \in { x \in SrvIdx : SrvViolates(x[1], x[2]) } }
    \cup { <<nsu[1][1], nsu[1][2], nsu[2]>> :
             nsu \in { x \in UsrIdx : UsrViolates(x[1][1], x[1][2], x[2]) } }

C3_CollectsEveryViolation ==
    Validated =>
        /\ \A v \in Violators :
              \E e \in ErrSet :
                 e.net = v[1] - 1 /\ e.srv = v[2] - 1 /\ e.usr = v[3] - 1
        /\ Cardinality(ErrSet) >= Cardinality(Violators)
        /\ Len(errors) = Cardinality(ErrSet)

C3_Witness ==
    /\ Validated
    /\ Cardinality(Violators) >= 4
    /\ \E v, w \in Violators : v[1] # w[1] /\ v[3] > 0 /\ w[3] > 0

(***************************************************************************)
(* C4  For every valid inventory validate_config returns the empty list,   *)
(* and for every inventory with a missing required field (a network's      *)
(* name or servers, a server's ip, a list user's username) the list holds  *)
(* the message that names this field and the index of the network, server  *)
(* and user it is missing from.                                            *)
(***************************************************************************)
KeyValid(k) == k.t \in {"absent", "null"} \/ (k.t = "str" /\ ~KeyMissing(k))

UserValid(x) == x.username.t = "str" /\ KeyValid(x.key_path)

ServerValid(sv) ==
    /\ sv.ip.t = "str"
    /\ sv.port.t \in {"absent", "null"} \/ IntInRange(sv.port)
    /\ \/ sv.username.t = "str" /\ ~Has(sv.users) /\ KeyValid(sv.key_path)
       \/ /\ ~Has(sv.username)
          /\ IsList(sv.users)
          /\ sv.users.l # <<>>
          /\ \A u \in 1..Len(sv.users.l) : UserValid(sv.users.l[u])

ValidInventory ==
    /\ config.t = "object"
    /\ IsList(config.networks)
    /\ \A n \in NetIdx :
          /\ Nets[n].name.t = "str"
          /\ IsList(Nets[n].servers)
          /\ \A s \in 1..Len(SrvsOf(n)) : ServerValid(SrvsOf(n)[s])

MissingField(n, s, u, field) ==
    Err("missing_field", n - 1, s - 1, u - 1, field, <<>>, PAbsent)

C4_ValidEmptyMissingNamed ==
    Validated =>
        /\ ValidInventory => errors = <<>>
        /\ \A n \in NetIdx :
              /\ ~Has(Nets[n].name) => MissingField(n, 0, 0, "name") \in ErrSet
              /\ ~Has(Nets[n].servers) => MissingField(n, 0, 0, "servers") \in ErrSet
        /\ \A ns \in SrvIdx :
              ~Has(SrvsOf(ns[1])[ns[2]].ip) =>
                  MissingField(ns[1], ns[2], 0, "ip") \in ErrSet
        /\ \A nsu \in UsrIdx :
              ~Has(UsrsOf(nsu[1][1], nsu[1][2])[nsu[2]].username) =>
                  MissingField(nsu[1][1], nsu[1][2], nsu[2], "username") \in ErrSet

C4_Witness ==
    /\ Validated
    /\ \E nsu \in UsrIdx :
          /\ nsu[1][1] = 2 /\ nsu[1][2] = 2 /\ nsu[2] = 2
          /\ ~Has(UsrsOf(2, 2)[2].username)
          /\ MissingField(2, 2, 2, "username") \in ErrSet

(***************************************************************************)
(* C5  Credential exclusivity: a server with both 'username' and 'users'   *)
(* and a server with neither each get an error, of two different kinds;    *)
(* a server has no credential error only with exactly one of the two, and, *)
(* if that one is 'users', a non-empty list.                               *)
(***************************************************************************)
CredentialKinds ==
    {"no_credentials", "both_credentials", "users_not_array", "users_empty"}

CredentialErrorsAt(n, s) ==
    { e \in ErrSet : e.net = n - 1 /\ e.srv = s - 1 /\ e.kind \in CredentialKinds }

C5_CredentialExclusivity ==
    Validated =>
        \A ns \in SrvIdx :
            LET sv == SrvsOf(ns[1])[ns[2]]
                ce == CredentialErrorsAt(ns[1], ns[2])
            IN  /\ (Has(sv.username) /\ Has(sv.users)) <=>
                       (\E e \in ce : e.kind = "both_credentials")
                /\ (~Has(sv.username) /\ ~Has(sv.users)) <=>
                       (\E e \in ce : e.kind = "no_credentials")
                /\ ce = {} <=>
                       \/ Has(sv.username) /\ ~Has(sv.users)
                       \/ /\ ~Has(sv.username)
                          /\ IsList(sv.users)
                          /\ sv.users.l # <<>>

C5_Witness ==
    /\ Validated
    /\ \E ns \in SrvIdx :
          /\ ns[2] = 2
          /\ Has(SrvsOf(ns[1])[2].username) /\ Has(SrvsOf(ns[1])[2].users)
          /\ \E e \in CredentialErrorsAt(ns[1], 2) : e.kind = "both_credentials"

(***************************************************************************)
(* C6  Key files are checked at load time: every legacy server and every   *)
(* list user whose key_path is a non-empty string that, after expansion of *)
(* "~", names no existing file gets one error carrying the network and     *)
(* server index (and the user index); there is exactly one such error per  *)
(* missing key, so an absent, null or empty key_path and an existing file  *)
(* give none.                                                              *)
(***************************************************************************)
KeyErrors == { e \in ErrSet : e.kind = "key_not_found" }

MissingKeys ==
    { <<ns[1], ns[2], 0>> :
        ns \in { x \in SrvIdx : /\ Has(SrvsOf(x[1])[x[2]].username)
                                /\ KeyMissing(SrvsOf(x[1])[x[2]].key_path) } }
    \cup
    { <<nsu[1][1], nsu[1][2], nsu[2]>> :
        nsu \in { x \in UsrIdx : KeyMissing(UsrsOf(x[1][1], x[1][2])[x[2]].key_path) } }

KeyOf(v) ==
    IF v[3] = 0 THEN SrvsOf(v[1])[v[2]].key_path.p
                ELSE UsrsOf(v[1], v[2])[v[3]].key_path.p

C6_KeyFilesCheckedAtLoad ==
    Validated =>
        /\ \A v \in MissingKeys :
              Err("key_not_found", v[1] - 1, v[2] - 1, v[3] - 1, "key_path",
                  KeyOf(v), PAbsent) \in ErrSet
        /\ Cardinality(KeyErrors) = Cardinality(MissingKeys)
        /\ Cardinality({ i \in 1..Len(errors) : errors[i].kind = "key_not_found" })
              = Cardinality(MissingKeys)

C6_Witness ==
    /\ Validated
    /\ \E v \in MissingKeys : v[3] = 2
    /\ \E e \in KeyErrors : e.usr = 1

(***************************************************************************)
(* C7  Port defaulting: get_port returns the stored port when it is an     *)
(* integer in [1, 65535] and 22 in every other case (absent, null, out of  *)
(* range, not an integer).                                                 *)
(***************************************************************************)
C7_PortDefaulting ==
    (pc = "pure" /\ port # PAbsent) =>
        port = IF IntInRange(probe.port) THEN probe.port ELSE PInt(22)

\* the same with a JSON boolean counted as the integer Python takes it for
C7_PortDefaultingBoolAsInt ==
    (pc = "pure" /\ port # PAbsent) =>
        port = IF probe.port.t \in {"int", "bool"} /\ probe.port.n \in 1..65535
                  THEN probe.port
                  ELSE PInt(22)

(***************************************************************************)
(* C8  A legacy-format server ('username', no 'users') normalises to a     *)
(* one-element user list whose element has the server's username, the      *)
(* server's key_path (null when it has none) and the description           *)
(* "Default user", whatever else the server carries.                       *)
(***************************************************************************)
Normalized == pc = "pure" /\ server_info # NoInfo

Legacy(server) == Has(server.username) /\ ~Has(server.users)

C8_LegacyUserDefaultDescription ==
    (Normalized /\ Legacy(probe)) =>
        users = LList(<<[username |-> probe.username,
                         key_path |-> IF Has(probe.key_path) THEN probe.key_path
                                                             ELSE KNull,
                         description |-> Str("Default user")]>>)

\* C8 as amended: the description is the server's own 'description' when
\* the server has that key (whatever its value), "Default user" otherwise
C8_LegacyUserServerDescription ==
    (Normalized /\ Legacy(probe)) =>
        /\ users.t = "list"
        /\ Len(users.l) = 1
        /\ users.l[1].username = probe.username
        /\ users.l[1].key_path =
              (IF probe.key_path.t = "absent" THEN KNull ELSE probe.key_path)
        /\ users.l[1].description =
              (IF probe.description.t = "absent" THEN Str("Default user")
                                                 ELSE probe.description)

C8_Witness ==
    /\ Normalized
    /\ Legacy(probe)
    /\ probe.description = Str("Web server")
    /\ users.l[1].description = Str("Web server")

(***************************************************************************)
(* C9  normalize_server_format is repeatable: a second call on the same    *)
(* legacy-format server returns the serverInfo and the one-element user    *)
(* list the first call returned.                                           *)
(***************************************************************************)
C9_NormalizeRepeatable ==
    (Normalized /\ normPrev.set /\ Legacy(probe)) =>
        /\ server_info = normPrev.info
        /\ users = normPrev.users
        /\ Len(users.l) = 1
        /\ Len(normPrev.users.l) = 1

C9_Witness ==
    /\ Normalized
    /\ normPrev.set
    /\ Legacy(probe)
    /\ ~Has(probe.description)
    /\ server_info.description = Str("N/A")

(***************************************************************************)
(* C10  Auth classification: get_auth_method_display returns KEY with the  *)
(* expanded path exactly when the user's key_path is present and not       *)
(* empty, and PASSWORD with no path when it is absent, null or "".         *)
(***************************************************************************)
C10_AuthClassification ==
    (pc = "pure" /\ auth # NoAuth) =>
        IF user.key_path.t = "str" /\ Len(user.key_path.p) > 0
           THEN /\ auth.method = "KEY"
                /\ auth.key_info =
                      KStr(IF Head(user.key_path.p) = "~"
                              THEN <<"/", "home", "op">> \o Tail(user.key_path.p)
                              ELSE user.key_path.p)
           ELSE /\ auth.method = "PASSWORD"
                /\ auth.key_info = KNull

C10_Witness ==
    /\ pc = "pure"
    /\ auth.method = "KEY"
    /\ user.key_path = KStr(<<"~", ".ssh", "id_ed25519">>)
    /\ auth.key_info = KStr(<<"/", "home", "op", ".ssh", "id_ed25519">>)

(***************************************************************************)
(* Helpers for the claims about the selection state machine                *)
(***************************************************************************)
\* the network and the server under the cursors, as the inventory holds them
CursorNetwork == Nets[netRow + 1]
CursorServer == SrvsOf(netRow + 1)[srvRow + 1]

\* the server has one user: the legacy shape, or a 'users' list of one entry
OneUserServer(s) == IF Has(s.users) THEN Len(s.users.l) = 1 ELSE Has(s.username)

\* the keypress that confirms the row under the cursor is the only step
\* from a list to a deeper state
SrvConfirm == pc = "ServerList" /\ pc' \in {"UserList", "Running", "crashed"}
UsrConfirm == pc = "UserList" /\ pc' \in {"Running", "crashed"}

Connecting == pc \in {"Running", "Ack"}

(***************************************************************************)
(* C11  Single-user shortcut: confirming in the server list a server that  *)
(* has exactly one user (legacy shape, or a 'users' list of one entry)     *)
(* leads in that very step to the connection with that user, started by    *)
(* the server list itself; the user list is entered from the server list   *)
(* only for a server that does not have exactly one user, so no user list  *)
(* lies between the confirm and the connection.                            *)
(***************************************************************************)
C11_SingleUserShortcut ==
    [][ /\ (SrvConfirm /\ OneUserServer(CursorServer)) =>
              /\ pc' = "Running"
              /\ caller' = "ServerList"
              /\ user'.username = (IF Has(CursorServer.users)
                                      THEN CursorServer.users.l[1].username
                                      ELSE CursorServer.username)
              /\ Has(CursorServer.users) => user' = CursorServer.users.l[1]
              /\ users'.l = <<user'>>
        /\ (pc = "ServerList" /\ pc' = "UserList") => ~OneUserServer(CursorServer)
        /\ (pc = "UserList" /\ pc' = "Running") => caller' = "UserList"
      ]_vars

\* a connection running that the server list started for a server whose
\* 'users' list has one entry
C11_Witness ==
    /\ pc = "Running"
    /\ caller = "ServerList"
    /\ Has(CursorServer.users)
    /\ Len(CursorServer.users.l) = 1
    /\ user = CursorServer.users.l[1]

(***************************************************************************)
(* C12  Multi-user server: confirming in the server list a server whose    *)
(* 'users' list has two or more entries enters the user list with the      *)
(* cursor on its first row and starts no connection (terminal and          *)
(* connection state untouched); the list the user list holds is the        *)
(* server's 'users' list itself, same entries in the same order, for as    *)
(* long as the user list is shown; and confirming there connects the       *)
(* entry of that list at the cursor.                                       *)
(***************************************************************************)
C12_MultiUserList ==
    [][ /\ (SrvConfirm /\ Has(CursorServer.users) /\ Len(CursorServer.users.l) >= 2) =>
              /\ pc' = "UserList"
              /\ usrRow' = 0
              /\ users' = CursorServer.users
              /\ cursesOn' = cursesOn
              /\ UNCHANGED connLocals
        /\ pc' = "UserList" => users' = CursorServer'.users
        /\ (UsrConfirm /\ usrRow + 1 <= Len(CursorServer.users.l)) =>
              /\ pc' = "Running"
              /\ user' = CursorServer.users.l[usrRow + 1]
      ]_vars

\* the user list of a two-user server with the cursor moved to the second,
\* different, entry
C12_Witness ==
    /\ pc = "UserList"
    /\ Len(CursorServer.users.l) >= 2
    /\ users = CursorServer.users
    /\ usrRow = 1
    /\ users.l[1] # users.l[2]

NetConfirm == pc = "NetworkList" /\ pc' \in {"ServerList", "ServerEmpty", "crashed"}

\* KeyboardInterrupt (SIGINT, not a key getch() returns) caught by run(),
\* which prints the farewell and returns 0
Interrupted == pc' = "returned" /\ report' = "Goodbye!"

(***************************************************************************)
(* C13  Empty-server network: confirming in the network list a network     *)
(* whose 'servers' list is empty shows the empty-state screen; that screen  *)
(* is shown only for such a network, in curses mode; the next key, whatever *)
(* it is, leads back to the network list and changes nothing else: no       *)
(* cursor moves, no connection is prepared, the terminal stays in curses    *)
(* mode and run() does not return.  (Only the interrupt signal, which is    *)
(* not a key, ends the program there.)                                      *)
(***************************************************************************)
C13_EmptyServerNetwork ==
    [][ /\ (NetConfirm /\ netRow + 1 <= Len(Nets) /\ SrvsOf(netRow + 1) = <<>>) =>
              /\ pc' = "ServerEmpty"
              /\ netRow' = netRow
              /\ cursesOn'
        /\ pc' = "ServerEmpty" =>
              /\ pc = "NetworkList"
              /\ SrvsOf(netRow + 1) = <<>>
        /\ (pc = "ServerEmpty" /\ ~Interrupted) =>
              /\ pc' = "NetworkList"
              /\ UNCHANGED <<rows, menuLocals, connLocals, cursesOn, ret, config,
                             errors>>
      ]_vars

\* the empty-state screen of the second network of the inventory
C13_Witness ==
    /\ pc = "ServerEmpty"
    /\ netRow = 1
    /\ SrvsOf(2) = <<>>
    /\ cursesOn

\* the user connect_ssh was called with: the row of the user list, or the
\* only user of the server when the server list called it
SelectedUser ==
    IF caller = "UserList" THEN users.l[usrRow + 1] ELSE users.l[1]

\* the port as the inventory resolves it: the value when it is an integer of
\* 1..65535, else 22 (a boolean is passed through by get_port, see C7)
ResolvedPortText(p) ==
    CASE p.t = "bool" -> (IF p.n = 1 THEN "True" ELSE "22")
      [] IntInRange(p) -> ToString(p.n)
      [] OTHER -> "22"

(***************************************************************************)
(* C14  The argument list connect_ssh hands to the external process, while *)
(* the process runs and until the acknowledgment: it is "ssh", "-p", the    *)
(* text of the resolved port of the selected server, then "-i" and the      *)
(* '~'-expanded key path exactly when the selected user authenticates by    *)
(* key (a non-empty key_path), and last <username>@<ip> of the selected     *)
(* user and server; nothing else.                                          *)
(***************************************************************************)
C14_TransportInvocation ==
    Connecting =>
        LET key == user.key_path.t = "str" /\ user.key_path.p # <<>>
            n == Len(ssh_command)
        IN  /\ user = SelectedUser
            /\ server_info.ip = CursorServer.ip
            /\ n = IF key THEN 6 ELSE 4
            /\ ssh_command[1] = "ssh"
            /\ ssh_command[2] = "-p"
            /\ ssh_command[3] = ResolvedPortText(CursorServer.port)
            /\ key <=> auth.method = "KEY"
            /\ key <=> \E i \in 1..n : ssh_command[i] = "-i"
            /\ key => /\ ssh_command[4] = "-i"
                      /\ ssh_command[5] = JoinPath(expanduser(user.key_path.p))
            /\ ssh_command[n] = user.username.s \o "@" \o CursorServer.ip.s

\* a key user of a server on a custom port, connected from the user list
C14_Witness ==
    /\ pc = "Running"
    /\ ssh_command = <<"ssh", "-p", "2222", "-i", "/home/op/.ssh/id_ed25519",
                       "bob@10.0.0.5">>

\* the outcomes of subprocess.run as connect_ssh reports them
Outcomes == {"exited", "Connection interrupted", "Connection failed"}

\* input() raised EOFError: run() ends with a traceback
EndOfInput == pc = "Ack" /\ pc' = "crashed"

(***************************************************************************)
(* C15  Launcher failures are not fatal: whatever the outcome of the       *)
(* external process (it exits, it cannot be started, the operator          *)
(* interrupts it), connect_ssh reports it and then waits for the           *)
(* acknowledgment with run() still running and the terminal out of curses  *)
(* mode; a menu is shown again only from the acknowledgment; and from the   *)
(* launch to the menu the program does not end (the interrupt signal at    *)
(* the acknowledgment, which run() turns into its farewell, set aside).    *)
(***************************************************************************)
C15_LauncherNonFatal ==
    [][ /\ pc = "Running" =>
              /\ pc' = "Ack"
              /\ report' \in Outcomes
              /\ ret' = ret
              /\ ~cursesOn'
        /\ (Connecting /\ pc' \in Menus) => (pc = "Ack" /\ pc' = caller)
        /\ (Connecting /\ ~Interrupted) => pc' \in {"Ack"} \cup Menus
      ]_vars

\* C15 apart from the end of input at the acknowledgment (the EOFError of
\* C2): this much holds
C15_NonFatalExceptEndOfInput ==
    [][ /\ pc = "Running" =>
              /\ pc' = "Ack"
              /\ report' \in Outcomes
              /\ ret' = ret
              /\ ~cursesOn'
        /\ (Connecting /\ pc' \in Menus) => (pc = "Ack" /\ pc' = caller)
        /\ (Connecting /\ ~Interrupted /\ ~EndOfInput) => pc' \in {"Ack"} \cup Menus
      ]_vars

(***************************************************************************)
(* C16  Exit codes: run() has a result exactly when it has returned, and   *)
(* the result is 0 or 1.  It is 0 exactly when the operator quit from the  *)
(* network list or an interrupt arrived during the interactive loop (the   *)
(* farewell), the terminal being out of curses mode; it is 1 exactly when  *)
(* load_config failed (file missing, malformed JSON) or validate_config    *)
(* found errors, and each of these failures does end in the result 1.      *)
(***************************************************************************)
C16_ExitCodes ==
    /\ ret # -1 <=> pc = "returned"
    /\ pc = "returned" =>
          /\ ret \in {0, 1}
          /\ ret = 0 <=> report \in {"quit", "Goodbye!"}
          /\ ret = 0 => (file.state = "ok" /\ errors = <<>>)
          /\ ret = 1 <=> (file.state \in {"missing", "malformed"} \/ errors # <<>>)
          /\ ~cursesOn
    /\ (pc # "start" /\ file.state \in {"missing", "malformed"}) =>
          (pc = "returned" /\ ret = 1)
    /\ errors # <<>> => (pc = "returned" /\ ret = 1)

\* run() has returned 0 on an interrupt that arrived below the network list
C16_Witness ==
    /\ pc = "returned"
    /\ ret = 0
    /\ report = "Goodbye!"
    /\ users # LAbsent

\* the length of the list the active menu shows, and its cursor
ShownLen ==
    CASE pc = "NetworkList" -> Len(Nets)
      [] pc = "ServerList" -> Len(SrvsOf(netRow + 1))
      [] pc = "UserList" -> Len(users.l)
      [] OTHER -> 1

Cursor ==
    CASE pc = "NetworkList" -> netRow
      [] pc = "ServerList" -> srvRow
      [] pc = "UserList" -> usrRow
      [] OTHER -> 0

(***************************************************************************)
(* C17  Cursor clamping: whenever the network list, the server list or the *)
(* user list is shown, whatever keys were pressed before, the cursor of    *)
(* that list is a row of the list shown: 0 <= cursor <= len - 1.            *)
(***************************************************************************)
C17_CursorClamping ==
    0 <= Cursor /\ Cursor <= ShownLen - 1

\* C17 for the lists that have a row (the inventory {"networks": []} of C2
\* has none): the cursor stays in range, moves by at most one row, stays
\* where it is at either end, and ENTER takes the element under it
C17_ClampingOfNonEmptyLists ==
    [][ (pc \in {"NetworkList", "ServerList", "UserList"} /\ ShownLen > 0) =>
          /\ 0 <= Cursor /\ Cursor <= ShownLen - 1
          /\ pc' = pc =>
                /\ Cursor' \in {Cursor - 1, Cursor, Cursor + 1}
                /\ 0 <= Cursor' /\ Cursor' <= ShownLen - 1
          /\ (pc # "NetworkList" /\ pc' \in Interactive) => netRow' = netRow
          /\ (pc = "ServerList" /\ pc' \in {"UserList", "Running"}) =>
                /\ srvRow' = srvRow
                /\ server_info'.ip = CursorServer.ip
          /\ (pc = "UserList" /\ pc' = "Running") =>
                /\ usrRow' = usrRow
                /\ user' = users.l[usrRow + 1]
      ]_vars

\* what the step out of the acknowledgment must leave as it was: the three
\* cursors, the inventory, and for the user list its server and its users
Resumed ==
    /\ pc' = caller
    /\ caller \in {"UserList", "ServerList"}
    /\ cursesOn'
    /\ UNCHANGED <<rows, config, ret>>
    /\ caller = "UserList" => UNCHANGED <<server_info, users>>

\* the connection keeps the menu that started it and that menu's state
CallerKept ==
    /\ (pc = "UserList" /\ pc' = "Running") =>
          (caller' = "UserList" /\ UNCHANGED <<rows, server_info, users>>)
    /\ (pc = "ServerList" /\ pc' = "Running") =>
          (caller' = "ServerList" /\ UNCHANGED rows)
    /\ pc = "Running" => UNCHANGED <<caller, rows, server_info, users, config>>

(***************************************************************************)
(* C18  Connecting resumes the calling state: a connection remembers the   *)
(* list it was started from and leaves that list's state alone; the step   *)
(* that ends it leads to that list, in curses mode, with the same cursors  *)
(* and, for the user list, the same server and the same users; the         *)
(* connection never leads to the network list, nor makes run() return      *)
(* (the interrupt signal, which run() turns into its farewell, set aside). *)
(***************************************************************************)
C18_ConnectingResumesCaller ==
    [][ /\ CallerKept
        /\ (pc = "Ack" /\ ~Interrupted) => Resumed
        /\ Connecting => (pc' # "NetworkList" /\ (pc' = "returned" => Interrupted))
      ]_vars

\* C18 apart from the end of input at the acknowledgment (the EOFError of
\* C2 and C15): this much holds
C18_ResumesCallerExceptEndOfInput ==
    [][ /\ CallerKept
        /\ (pc = "Ack" /\ ~Interrupted /\ ~EndOfInput) => Resumed
        /\ Connecting => (pc' # "NetworkList" /\ (pc' = "returned" => Interrupted))
      ]_vars

(***************************************************************************)
(* C19  Quit / escape pops exactly one level: the only way out of the user *)
(* list to another list leads to the server list, with the network and     *)
(* server cursors where they were; the only way out of the server list to  *)
(* a shallower list leads to the network list, with the network cursor      *)
(* where it was; a key makes run() return only in the network list, with   *)
(* result 0, never in a nested list (there only the interrupt signal       *)
(* does); and once run() has returned nothing more happens.                *)
(***************************************************************************)
C19_QuitPopsOneLevel ==
    [][ /\ (pc = "UserList" /\ pc' \in Menus \ {"UserList"}) =>
              /\ pc' = "ServerList"
              /\ netRow' = netRow
              /\ srvRow' = srvRow
              /\ cursesOn'
        /\ (pc = "ServerList" /\ pc' \in Menus \ {"ServerList", "UserList"}) =>
              /\ pc' = "NetworkList"
              /\ netRow' = netRow
              /\ cursesOn'
        /\ (pc \in Interactive /\ pc' = "returned" /\ ~Interrupted) =>
              /\ pc = "NetworkList"
              /\ ret' = 0
        /\ pc = "returned" => pc' = "returned"
      ]_vars

\* run() has returned on the quit key after the operator had gone down to
\* the second server of the second network and come back up
C19_Witness ==
    /\ pc = "returned"
    /\ report = "quit"
    /\ ret = 0
    /\ netRow = 1
    /\ srvRow = 1

(***************************************************************************)
(* C20  The two suspension points exclude each other: the terminal is in   *)
(* curses mode exactly while a menu waits for a key, so never while the    *)
(* external process runs or the acknowledgment is awaited; the step that   *)
(* launches the process leaves curses mode (before the summary), and       *)
(* curses mode is entered again only by the step that ends the             *)
(* acknowledgment, after the process has reported its outcome.             *)
(***************************************************************************)
C20_SuspensionPointsExclusive ==
    /\ Connecting => ~cursesOn
    /\ cursesOn <=> pc \in Menus
    /\ pc = "Running" => report = "summary"
    /\ pc = "Ack" => report \in Outcomes

\* the acknowledgment awaited after an interrupted process that the user
\* list launched: curses mode has been left and not yet entered again
C20_Witness ==
    /\ pc = "Ack"
    /\ report = "Connection interrupted"
    /\ caller = "UserList"
    /\ ~cursesOn

\* a port that is given: present and not null
PortGiven(p) == Has(p) /\ p.t # "null"

\* the servers of the inventory, as records
AllServers == { SrvsOf(ns[1])[ns[2]] : ns \in SrvIdx }

(***************************************************************************)
(* C21  Port findings block the load: once validate_config has run, an     *)
(* inventory with a server whose port is given (present, not null) and is  *)
(* not an integer of 1..65535 has a non-empty error list, and so never     *)
(* reaches a menu; an inventory whose ports are all absent, null or        *)
(* integers of 1..65535 has no port error; hence in every interactive      *)
(* state get_port returns, for each server, the stored port when one is    *)
(* given and 22 otherwise, and that port is an integer of 1..65535.        *)
(***************************************************************************)
C21_PortFindingsBlockLoad ==
    Validated =>
        /\ (\E srv \in AllServers : PortGiven(srv.port) /\ ~IntInRange(srv.port))
              => (errors # <<>> /\ pc \notin Interactive)
        /\ (\A srv \in AllServers : ~PortGiven(srv.port) \/ IntInRange(srv.port))
              => ~\E e \in ErrSet : e.kind = "invalid_port"
        /\ pc \in Interactive =>
              \A srv \in AllServers :
                  /\ get_port(srv) = IF PortGiven(srv.port) THEN srv.port ELSE PInt(22)
                  /\ IntInRange(get_port(srv))

\* C21 with the JSON boolean true counted among the integers, as Python
\* does (the defect of C7): this much holds
C21_PortFindingsBoolAsInt ==
    Validated =>
        LET ok(p) == IntInRange(p) \/ p = PBool(1)
        IN  /\ (\E srv \in AllServers : PortGiven(srv.port) /\ ~ok(srv.port))
                  => (errors # <<>> /\ pc \notin Interactive)
            /\ (\A srv \in AllServers : ~PortGiven(srv.port) \/ ok(srv.port))
                  => ~\E e \in ErrSet : e.kind = "invalid_port"
            /\ pc \in Interactive =>
                  \A srv \in AllServers :
                      /\ get_port(srv) = IF PortGiven(srv.port) THEN srv.port ELSE PInt(22)
                      /\ ok(get_port(srv))

(***************************************************************************)
(* C22  The inventory is read-only after the load: from the moment         *)
(* load_config has stored it, through validation, every cursor move,       *)
(* confirm, normalization, connection and quit, the configuration in       *)
(* memory is the document that was loaded: same networks, servers and      *)
(* users, same fields, same order; and no step changes it.                 *)
(***************************************************************************)
C22_InventoryReadOnly ==
    [][ /\ (pc # "start" /\ file.state = "ok") => (config = file.doc /\ config' = config)
        /\ file' = file
        /\ pc' \in Interactive => config' = file.doc
      ]_vars

\* the acknowledgment of a connection made from the second row of a user
\* list: moves, confirms, normalizations and a connection have happened
C22_Witness ==
    /\ pc = "Ack"
    /\ caller = "UserList"
    /\ usrRow = 1
    /\ config = file.doc
    /\ Len(UsrsOf(netRow + 1, srvRow + 1)) >= 2

(***************************************************************************)
(* C23  In every interactive state (so for an inventory validate_config    *)
(* accepted) each server normalizes to a list of at least one user; the    *)
(* user list is therefore shown only with two or more users, with its      *)
(* cursor on one of them, and a connection made from it is made with a     *)
(* user of that list.                                                      *)
(***************************************************************************)
C23_UserListHasTwoOrMore ==
    /\ pc \in Interactive =>
          \A srv \in AllServers :
              /\ ~normalize_raises(srv)
              /\ IsList(normalize_server_format(srv).users)
              /\ Len(normalize_server_format(srv).users.l) >= 1
    /\ pc = "UserList" =>
          /\ IsList(users)
          /\ Len(users.l) >= 2
          /\ usrRow + 1 \in 1..Len(users.l)
    /\ (Connecting /\ caller = "UserList") =>
          /\ Len(users.l) >= 2
          /\ user = users.l[usrRow + 1]

\* a connection running that was confirmed on the second row of a user list
C23_Witness ==
    /\ pc = "Running"
    /\ caller = "UserList"
    /\ usrRow = 1
    /\ user = users.l[2]

\* the number of quit keys between a menu and the return of run()
Depth(p) ==
    CASE p = "UserList" -> 3
      [] p \in {"ServerList", "ServerEmpty"} -> 2
      [] p = "NetworkList" -> 1
      [] OTHER -> 0

\* a key that takes the operator one level up, or out of the network list
\* (the interrupt signal is not counted)
StepUp ==
    /\ Next
    /\ ~Interrupted
    /\ pc' \in Menus \cup {"returned"}
    /\ Depth(pc') = Depth(pc) - 1
    /\ pc' = "returned" => ret' = 0

\* the external process returns; the acknowledgment returns to the menu
\* that launched the connection
ProcessReturns == Next /\ pc' = "Ack"
AcknowledgmentReturns == Next /\ pc' = caller /\ pc' \in Menus

(***************************************************************************)
(* C24  No menu is a trap: in every menu (network list, server list, the    *)
(* empty-state screen, user list) a key is available that leads one level  *)
(* up, and from the network list makes run() return 0; a menu is at most   *)
(* three levels deep, so at most three such keys reach the exit.  While a  *)
(* connection is in progress the process can return, and the               *)
(* acknowledgment then leads back to a menu.                               *)
(***************************************************************************)
C24_NoMenuIsATrap ==
    /\ pc \in Menus => (Depth(pc) \in 1..3 /\ ENABLED StepUp)
    /\ pc = "Running" => ENABLED ProcessReturns
    /\ pc = "Ack" => ENABLED AcknowledgmentReturns

\* the deepest menu, its cursor moved: three quit keys from the exit
C24_Witness ==
    /\ pc = "UserList"
    /\ usrRow = 1
    /\ Depth(pc) = 3
    /\ ENABLED StepUp

============================================================================
